---- MODULE Spec2Model ----
(***************************************************************************)
(* Model of the HTTP client wrapper (src/src/services/api.ts) and of the   *)
(* password-reset page (src/src/components/ForgotPasswordPage.tsx).        *)
(*                                                                         *)
(* Strings are sequences of tokens (words or characters), so that          *)
(* String.prototype.includes, .length and template concatenation are       *)
(* computed rather than assumed.  JavaScript values are tagged records.    *)
(***************************************************************************)
EXTENDS Integers, Sequences, FiniteSets, TLC

VARIABLES
    email,            \* useState("")     ForgotPasswordPage.tsx:12
    newPassword,      \* useState("")     ForgotPasswordPage.tsx:13
    confirmPassword,  \* useState("")     ForgotPasswordPage.tsx:14
    isLoading,        \* useState(false)  ForgotPasswordPage.tsx:17
    isSuccess,        \* useState(false)  ForgotPasswordPage.tsx:18
    error,            \* useState("")     ForgotPasswordPage.tsx:19
    authToken,        \* localStorage item 'auth_token' (read at api.ts:180)
    inflight,         \* makeRequest calls suspended at `await fetch` (api.ts:186)
    last              \* history: the handler that ran last, with its inputs and result

vars == <<email, newPassword, confirmPassword, isLoading, isSuccess, error,
          authToken, inflight, last>>

pageVars == <<email, newPassword, confirmPassword, isLoading, isSuccess, error>>

-----------------------------------------------------------------------------
(* Bounds of the model *)

MaxPasswordLen == 9
MaxInFlight == 2

-----------------------------------------------------------------------------
(* JavaScript values *)

Undefined == [t |-> "undefined"]
Null == [t |-> "null"]
Str(s) == [t |-> "string", v |-> s]
Bool(b) == [t |-> "boolean", v |-> b]
Num(n) == [t |-> "number", v |-> n]
Obj(f) == [t |-> "object", fields |-> f]
JsError(name, message) == [t |-> "error", name |-> name, message |-> message]

EmptyRecord == [k \in {} |-> Undefined]

\* completion of a block or of an awaited promise
Return(v) == [kind |-> "return", value |-> v]
Throw(e) == [kind |-> "throw", error |-> e]

\* s.includes(sub)
Includes(s, sub) ==
    \E i \in 0..(Len(s) - Len(sub)) : SubSeq(s, i + 1, i + Len(sub)) = sub

\* ToBoolean, as applied by `if (token)` and by `||`
Truthy(v) ==
    CASE v.t = "undefined" -> FALSE
      [] v.t = "null" -> FALSE
      [] v.t = "string" -> v.v # <<>>
      [] v.t = "boolean" -> v.v
      [] v.t = "number" -> v.v # 0
      [] OTHER -> TRUE

\* a || b
OrElse(a, b) == IF Truthy(a) THEN a ELSE b

\* ToString, as applied by `new Error(x)` to its argument
ToStr(v) ==
    CASE v.t = "string" -> v.v
      [] v.t = "boolean" -> IF v.v THEN <<"true">> ELSE <<"false">>
      [] v.t = "number" -> <<"<number>">>
      [] v.t = "null" -> <<"null">>
      [] v.t = "undefined" -> <<"undefined">>
      [] OTHER -> <<"[object", "Object]">>

\* v.name : a property read, which throws a TypeError on null and undefined
GetProp(v, name) ==
    IF v.t \in {"null", "undefined"}
    THEN Throw(JsError("TypeError",
               <<"Cannot", "read", "properties", "of", v.t, "(reading", name, ")">>))
    ELSE IF v.t = "object" /\ name \in DOMAIN v.fields
         THEN Return(v.fields[name])
         ELSE Return(Undefined)

\* { ...a, ...b } on two records of own enumerable properties
Spread(a, b) ==
    [k \in (DOMAIN a) \cup (DOMAIN b) |-> IF k \in DOMAIN b THEN b[k] ELSE a[k]]

-----------------------------------------------------------------------------
(* Message texts of the program *)

FailedToFetch == <<"Failed", "to", "fetch">>
NetworkErrorMessage ==
    <<"Network", "error:", "Unable", "to", "connect", "to", "server.",
      "Please", "check", "your", "internet", "connection.">>
RequestFailed == <<"Request", "failed">>
ApplicationJson == <<"application/json">>

-----------------------------------------------------------------------------
(* Inputs: local storage, request options, outcomes of fetch *)

API_BASE_URL == <<"https://groceryapp-production-d3fc.up.railway.app/api">>

\* localStorage.getItem('auth_token'): null when the key is absent, else a string
Tokens == {Null, Str(<<>>), Str(<<"tok1">>)}

Endpoints == {<<"/auth/forgot-password">>, <<"/category/getAll">>}

HeaderRecords ==
    { EmptyRecord,
      [k \in {"Accept"} |-> <<"text/plain">>],
      [k \in {"X-Trace"} |-> <<"t1">>],
      [k \in {"Content-Type", "Authorization"} |->
          IF k = "Content-Type" THEN <<"multipart/form-data">> ELSE <<"Basic", "abc">>] }

\* options.headers is a HeadersInit: absent, a plain record, a Headers
\* instance, or an array of [name, value] pairs
CallerHeaders ==
    {Undefined}
    \cup {[t |-> "record", fields |-> f] : f \in HeaderRecords}
    \cup {[t |-> "Headers", entries |-> f] : f \in HeaderRecords}
    \cup {[t |-> "array", items |-> <<>>],
          [t |-> "array", items |-> << <<"Accept", <<"text/plain">> >> >>]}

RequestOptions ==
    [method : {"GET", "POST"}, body : {Undefined}, headers : CallerHeaders]

ArrayKeys == <<"0", "1">>

\* the own enumerable properties that `...options.headers` copies
OwnProperties(h) ==
    CASE h.t = "record" -> h.fields
      [] h.t = "array" ->
            [k \in {ArrayKeys[j] : j \in 1..Len(h.items)} |->
                LET j == CHOOSE j \in 1..Len(h.items) : ArrayKeys[j] = k
                IN  <<h.items[j][1], ",">> \o h.items[j][2]]
      [] OTHER -> EmptyRecord      \* undefined, and a Headers instance: none

ErrorMessageValues ==
    {Undefined, Null, Str(<<>>), Str(<<"Email", "not", "found">>), Str(FailedToFetch)}
MessageValues == {Undefined, Null, Str(<<>>), Str(<<"Password", "updated">>)}
SuccessValues == {Undefined, Bool(TRUE), Bool(FALSE)}

\* the object with the given fields; an undefined field is an absent one
BodyObject(em, m, s) ==
    LET all == [k \in {"errorMessage", "message", "success"} |->
                   IF k = "errorMessage" THEN em ELSE IF k = "message" THEN m ELSE s]
    IN  Obj([k \in {n \in DOMAIN all : all[n] # Undefined} |-> all[k]])

JsonValues ==
    {Null, Num(5)}
    \cup {BodyObject(em, m, s) :
            em \in ErrorMessageValues, m \in MessageValues, s \in SuccessValues}

ValueText(v) ==
    CASE v.t = "string" -> <<"'">> \o v.v \o <<"'">>
      [] v.t = "boolean" -> IF v.v THEN <<"true">> ELSE <<"false">>
      [] v.t = "number" -> <<"5">>
      [] OTHER -> <<"null">>

FieldText(f, name) ==
    IF name \in DOMAIN f THEN <<name, ":">> \o ValueText(f[name]) ELSE <<>>

\* the text of a body whose JSON value is v
JsonText(v) ==
    IF v.t = "object"
    THEN <<"{">> \o FieldText(v.fields, "errorMessage") \o FieldText(v.fields, "message")
              \o FieldText(v.fields, "success") \o <<"}">>
    ELSE ValueText(v)

PlainTexts == {<<>>, <<"Bad", "Gateway">>}

\* a response body: what response.text() yields, and how response.json() completes
Bodies ==
    {[text |-> JsonText(v), json |-> Return(v)] : v \in JsonValues}
    \cup {[text |-> t,
           json |-> Throw(JsError("SyntaxError", <<"Unexpected", "token">>))] :
            t \in PlainTexts}

ContentTypes ==
    {Null, Str(ApplicationJson), Str(<<"application/json", ";", "charset=utf-8">>),
     Str(<<"text/html">>)}

Statuses == {200, 201, 400, 500}

\* Response.ok
ResponseOk(status) == status \in 200..299

Responses == [status : Statuses, contentType : ContentTypes, body : Bodies]

\* what fetch rejects with on a network failure, by browser engine
TransportErrors ==
    {JsError("TypeError", FailedToFetch),
     JsError("TypeError", <<"NetworkError", "when", "attempting", "to", "fetch", "resource.">>),
     JsError("TypeError", <<"Load", "failed">>)}

FetchOutcomes ==
    {[kind |-> "reject", error |-> e] : e \in TransportErrors}
    \cup {[kind |-> "response", response |-> r] : r \in Responses}

-----------------------------------------------------------------------------
(* ApiService.makeRequest *)

\* api.ts:175-183
DefaultHeaders(token) ==
    LET base == [k \in {"Content-Type", "Accept"} |-> ApplicationJson]
    IN  IF Truthy(token)
        THEN Spread(base, [k \in {"Authorization"} |-> <<"Bearer">> \o token.v])
        ELSE base

\* api.ts:188-191
MergedHeaders(token, options) ==
    Spread(DefaultHeaders(token), OwnProperties(options.headers))

\* api.ts:173, 186-192: the call suspended at `await fetch(url, init)`
MakeRequestCall(token, endpoint, options) ==
    [endpoint |-> endpoint,
     options |-> options,
     token |-> token,
     url |-> API_BASE_URL \o endpoint,
     init |-> [method |-> options.method, body |-> options.body,
               headers |-> MergedHeaders(token, options)]]

\* api.ts:194-202
ReadBody(response) ==
    IF response.contentType # Null /\ Includes(response.contentType.v, ApplicationJson)
    THEN response.body.json
    ELSE Return(Obj([k \in {"message"} |-> Str(response.body.text)]))

\* faulty variant: `message` is preferred to `errorMessage`
ThrowRequestError_MessageFirst(responseData) ==
    LET em == GetProp(responseData, "errorMessage")
        m == GetProp(responseData, "message")
    IN  IF m.kind = "throw" THEN m
        ELSE IF Truthy(m.value)
             THEN Throw(JsError("Error", ToStr(m.value)))
             ELSE IF em.kind = "throw" THEN em
                  ELSE Throw(JsError("Error",
                                ToStr(OrElse(em.value, Str(RequestFailed)))))

\* api.ts:209-212
ThrowRequestError(responseData) ==
    LET em == GetProp(responseData, "errorMessage")
        m == GetProp(responseData, "message")
    IN  IF em.kind = "throw" THEN em
        ELSE IF Truthy(em.value)
             THEN Throw(JsError("Error", ToStr(em.value)))
             ELSE IF m.kind = "throw" THEN m
                  ELSE Throw(JsError("Error",
                                ToStr(OrElse(m.value, Str(RequestFailed)))))

\* faulty variant: a 2xx body that carries an errorMessage is treated as a failure
TryBlock_ChecksErrorMessage(outcome) ==
    IF outcome.kind = "reject"
    THEN Throw(outcome.error)
    ELSE LET response == outcome.response
             responseData == ReadBody(response)
         IN  IF responseData.kind = "throw" THEN responseData
             ELSE IF ResponseOk(response.status)
                       /\ ~(responseData.value.t = "object"
                            /\ "errorMessage" \in DOMAIN responseData.value.fields
                            /\ Truthy(responseData.value.fields["errorMessage"]))
                  THEN Return(responseData.value)
                  ELSE ThrowRequestError(responseData.value)

\* api.ts:185-212: the try block, from the settling of fetch on
TryBlock(outcome) ==
    IF outcome.kind = "reject"
    THEN Throw(outcome.error)
    ELSE LET response == outcome.response
             responseData == ReadBody(response)
         IN  IF responseData.kind = "throw" THEN responseData
             ELSE IF ResponseOk(response.status)
                  THEN Return(responseData.value)
                  ELSE ThrowRequestError(responseData.value)

\* api.ts:213-225
CatchBlock(e) ==
    IF e.name = "TypeError" /\ Includes(e.message, FailedToFetch)
    THEN Throw(JsError("Error", NetworkErrorMessage))
    ELSE Throw(e)

\* api.ts:169-226: how the promise of makeRequest settles, given how fetch did
MakeRequest(outcome) ==
    LET c == TryBlock(outcome)
    IN  IF c.kind = "throw" THEN CatchBlock(c.error) ELSE c

-----------------------------------------------------------------------------
(* ForgotPasswordPage: texts and inputs *)

MinPasswordLength == 8

PasswordsDoNotMatch == <<"Passwords", "do", "not", "match">>
PasswordTooShort ==
    <<"Password", "must", "be", "at", "least", "8", "characters", "long">>
FailedToResetPassword == <<"Failed", "to", "reset", "password">>
AnErrorOccurred == <<"An", "error", "occurred">>
ForgotPasswordEndpoint == <<"/auth/forgot-password">>

Emails == {<<>>, <<"ann@example.com">>, <<"bob@example.com">>}

Rep(c, n) == [i \in 1..n |-> c]

PasswordLengths == {0} \cup {n \in 0..MaxPasswordLen : n >= MinPasswordLength - 1}

\* what the user can type into a password field: a sequence of characters
PasswordValues == {Rep(c, n) : c \in {"a", "b"}, n \in PasswordLengths}

\* JSON.stringify(data) for a ForgotPasswordRequest (api.ts:84-87, 259)
JsonStringify(data) ==
    Str(<<"{", "email", ":">> \o data.email
        \o <<",", "newPassword", ":">> \o data.newPassword \o <<"}">>)

\* api.ts:256-261
ForgotPassword(token, data) ==
    MakeRequestCall(token, ForgotPasswordEndpoint,
                    [method |-> "POST", body |-> JsonStringify(data),
                     headers |-> Undefined])

-----------------------------------------------------------------------------
(* ForgotPasswordPage: rendering *)

\* faulty variant: the inputs stay enabled while the request is in flight
FieldsEnabled_WhileLoading == ~isSuccess

\* the form is rendered unless isSuccess (tsx:52), and its inputs carry
\* disabled={isLoading} (tsx:174, 193, 224)
FieldsEnabled == ~isSuccess /\ ~isLoading

\* faulty variant: the submit button is not disabled while loading
SubmitEnabled_WhileLoading == ~isSuccess

\* the submit button carries disabled={isLoading} (tsx:244); no form in the
\* success view (tsx:52)
SubmitEnabled == ~isSuccess /\ ~isLoading

\* the email displayed by the success view (tsx:65)
ShownEmail == email

-----------------------------------------------------------------------------
(* ForgotPasswordPage: handlers *)

NoError == <<>>

\* faulty variant: the two passwords are not compared
ValidationError_NoMatchCheck(np, cp) ==
    IF Len(np) < MinPasswordLength THEN PasswordTooShort ELSE NoError

\* faulty variant: the length check is off by one
ValidationError_OffByOne(np, cp) ==
    IF np # cp THEN PasswordsDoNotMatch
    ELSE IF Len(np) < MinPasswordLength - 1 THEN PasswordTooShort
    ELSE NoError

\* tsx:24-32: the message of the validation that stops the submit, or NoError
ValidationError(np, cp) ==
    IF np # cp THEN PasswordsDoNotMatch
    ELSE IF Len(np) < MinPasswordLength THEN PasswordTooShort
    ELSE NoError

\* faulty variant: isLoading is reset on the success path only, not in a finally
AfterSettled_NoFinally(result) ==
    LET success == IF result.kind = "return"
                   THEN GetProp(result.value, "success")
                   ELSE result
        thrown == success.kind = "throw"
    IN  [isSuccess |-> IF ~thrown /\ Truthy(success.value) THEN TRUE ELSE isSuccess,
         error |-> IF thrown
                   THEN (IF success.error.t = "error"
                         THEN success.error.message ELSE AnErrorOccurred)
                   ELSE IF Truthy(success.value) THEN error
                   ELSE OrElse(GetProp(result.value, "message").value,
                               Str(FailedToResetPassword)).v,
         isLoading |-> thrown]

\* tsx:38-49: the state the page is left in when the awaited call has settled
AfterSettled(result) ==
    LET success == IF result.kind = "return"
                   THEN GetProp(result.value, "success")
                   ELSE result
        thrown == success.kind = "throw"
    IN  [isSuccess |-> IF ~thrown /\ Truthy(success.value) THEN TRUE ELSE isSuccess,
         error |-> IF thrown
                   THEN (IF success.error.t = "error"
                         THEN success.error.message ELSE AnErrorOccurred)
                   ELSE IF Truthy(success.value) THEN error
                   ELSE OrElse(GetProp(result.value, "message").value,
                               Str(FailedToResetPassword)).v,
         isLoading |-> FALSE]

Init ==
    /\ email = <<>>
    /\ newPassword = <<>>
    /\ confirmPassword = <<>>
    /\ isLoading = FALSE
    /\ isSuccess = FALSE
    /\ error = NoError
    /\ authToken \in Tokens
    /\ inflight = <<>>
    /\ last = [op |-> "init"]

\* tsx:170
SetEmail(v) ==
    /\ FieldsEnabled
    /\ email' = v
    /\ last' = [op |-> "edit"]
    /\ UNCHANGED <<newPassword, confirmPassword, isLoading, isSuccess, error,
                   authToken, inflight>>

\* tsx:189
SetNewPassword(v) ==
    /\ FieldsEnabled
    /\ newPassword' = v
    /\ last' = [op |-> "edit"]
    /\ UNCHANGED <<email, confirmPassword, isLoading, isSuccess, error,
                   authToken, inflight>>

\* tsx:220
SetConfirmPassword(v) ==
    /\ FieldsEnabled
    /\ confirmPassword' = v
    /\ last' = [op |-> "edit"]
    /\ UNCHANGED <<email, newPassword, isLoading, isSuccess, error,
                   authToken, inflight>>

\* tsx:21-38: handleSubmit up to its await
HandleSubmit ==
    /\ SubmitEnabled
    /\ Len(inflight) < MaxInFlight
    /\ LET v == ValidationError(newPassword, confirmPassword)
           data == [email |-> email, newPassword |-> newPassword]
       IN  IF v # NoError
           THEN /\ error' = v
                /\ last' = [op |-> "submit", passed |-> FALSE]
                /\ UNCHANGED <<isLoading, inflight>>
           ELSE /\ isLoading' = TRUE
                /\ error' = NoError
                /\ inflight' = Append(inflight,
                                 [call |-> ForgotPassword(authToken, data),
                                  data |-> data])
                /\ last' = [op |-> "submit", passed |-> TRUE]
    /\ UNCHANGED <<email, newPassword, confirmPassword, isSuccess, authToken>>

RemoveAt(s, i) == SubSeq(s, 1, i - 1) \o SubSeq(s, i + 1, Len(s))

\* tsx:38-49 with api.ts:194-225: fetch settles, makeRequest settles, and
\* handleSubmit resumes
HandleSettled(i, outcome) ==
    /\ i \in 1..Len(inflight)
    /\ LET result == MakeRequest(outcome)
           after == AfterSettled(result)
       IN  /\ isSuccess' = after.isSuccess
           /\ error' = after.error
           /\ isLoading' = after.isLoading
           /\ last' = [op |-> "settled", data |-> inflight[i].data,
                       outcome |-> outcome, result |-> result]
    /\ inflight' = RemoveAt(inflight, i)
    /\ UNCHANGED <<email, newPassword, confirmPassword, authToken>>

Next ==
    \/ \E v \in Emails : SetEmail(v)
    \/ \E v \in PasswordValues : SetNewPassword(v)
    \/ \E v \in PasswordValues : SetConfirmPassword(v)
    \/ HandleSubmit
    \/ \E i \in 1..MaxInFlight, outcome \in FetchOutcomes : HandleSettled(i, outcome)

Spec == Init /\ [][Next]_vars

-----------------------------------------------------------------------------
(* The client on its own: any caller, any options *)

\* another part of the application stores or removes the token
StorageSet(t) ==
    /\ authToken' = t
    /\ last' = [op |-> "storage"]
    /\ UNCHANGED <<pageVars, inflight>>

\* api.ts:169-192: makeRequest up to its await.  Calls share no state, so one
\* at a time shows all there is to see.
ApiCall(endpoint, options) ==
    /\ inflight = <<>>
    /\ LET call == MakeRequestCall(authToken, endpoint, options)
       IN  /\ inflight' = <<[call |-> call, data |-> Undefined]>>
           /\ last' = [op |-> "call", call |-> call]
    /\ UNCHANGED <<pageVars, authToken>>

\* api.ts:194-225: fetch settles and makeRequest settles
ApiSettled(outcome) ==
    /\ inflight # <<>>
    /\ inflight' = Tail(inflight)
    /\ last' = [op |-> "settled", data |-> Head(inflight).data,
                outcome |-> outcome, result |-> MakeRequest(outcome)]
    /\ UNCHANGED <<pageVars, authToken>>

NextApi ==
    \/ \E t \in Tokens : StorageSet(t)
    \/ \E e \in Endpoints, o \in RequestOptions : ApiCall(e, o)
    \/ \E outcome \in FetchOutcomes : ApiSettled(outcome)

SpecApi == Init /\ [][NextApi]_vars

-----------------------------------------------------------------------------
(* Vocabulary of the properties *)

Settled == last.op = "settled"
Rejected == Settled /\ last.result.kind = "throw"
Resolved == Settled /\ last.result.kind = "return"
GotResponse == Settled /\ last.outcome.kind = "response"
Got2xx == GotResponse /\ last.outcome.response.status \in 200..299
GotNon2xx == GotResponse /\ last.outcome.response.status \notin 200..299

IndicatesJson(ct) == ct # Null /\ Includes(ct.v, ApplicationJson)

\* the body of the response as parsed, when it could be parsed
BodyParsed ==
    GotResponse /\ (IndicatesJson(last.outcome.response.contentType)
                      => last.outcome.response.body.json.kind = "return")
ParsedBody ==
    IF IndicatesJson(last.outcome.response.contentType)
    THEN last.outcome.response.body.json.value
    ELSE Obj([k \in {"message"} |-> Str(last.outcome.response.body.text)])

UsableString(v) == v.t = "string" /\ v.v # <<>>
HasUsable(v, name) ==
    v.t = "object" /\ name \in DOMAIN v.fields /\ UsableString(v.fields[name])

\* C1: when fetch rejects, makeRequest rejects with the fixed connectivity
\* message, whatever the transport error is.
C1_NetworkFailureFixedMessage ==
    (Settled /\ last.outcome.kind = "reject")
        => (Rejected /\ last.result.error.message = NetworkErrorMessage)

\* C2: a non-2xx response whose parsed body has neither a usable errorMessage
\* nor a usable message (null and other non-objects included) rejects with
\* exactly 'Request failed'.
C2_DefaultRequestFailed ==
    (GotNon2xx /\ BodyParsed
       /\ ~HasUsable(ParsedBody, "errorMessage") /\ ~HasUsable(ParsedBody, "message"))
        => (Rejected /\ last.result.error.message = RequestFailed)

ErrorMessageOf(v) ==
    IF v.t = "object" /\ "errorMessage" \in DOMAIN v.fields
    THEN v.fields["errorMessage"] ELSE Undefined

\* C3 as stated: a non-2xx response whose parsed body has errorMessage "X"
\* rejects with message exactly X, for every string X.
C3_ErrorMessageEveryString ==
    (GotNon2xx /\ BodyParsed /\ ErrorMessageOf(ParsedBody).t = "string")
        => (Rejected /\ last.result.error.message = ErrorMessageOf(ParsedBody).v)

\* C3 amended: a non-2xx response whose parsed body has errorMessage "X", X not
\* empty, rejects with an Error whose message is exactly X, whether or not the
\* body has a message field too, and even when X contains 'Failed to fetch'.
C3_ErrorMessageNonEmpty ==
    (GotNon2xx /\ BodyParsed /\ UsableString(ErrorMessageOf(ParsedBody)))
        => (Rejected /\ last.result.error
                          = JsError("Error", ErrorMessageOf(ParsedBody).v))

C3_Witness ==
    /\ GotNon2xx /\ BodyParsed
    /\ ErrorMessageOf(ParsedBody) = Str(FailedToFetch)
    /\ HasUsable(ParsedBody, "message")
    /\ last.result = Throw(JsError("Error", FailedToFetch))

ForgotPasswordCallsInFlight ==
    {i \in 1..Len(inflight) : inflight[i].call.endpoint = ForgotPasswordEndpoint}

\* C4: at most one forgot-password request of the page is in flight at any time,
\* and one is in flight exactly while isLoading.
C4_AtMostOneInFlight ==
    /\ Cardinality(ForgotPasswordCallsInFlight) <= 1
    /\ isLoading <=> (Cardinality(ForgotPasswordCallsInFlight) = 1)

C4_Witness ==
    /\ last.op = "submit" /\ last.passed
    /\ isLoading /\ ~SubmitEnabled
    /\ Cardinality(ForgotPasswordCallsInFlight) = 1

\* C5: a submit with newPassword different from confirmPassword starts no call,
\* sets the error to 'Passwords do not match' and leaves isLoading and isSuccess
\* as they were.
C5_MismatchNeverCalls ==
    [][(last'.op = "submit" /\ newPassword # confirmPassword)
         => (/\ error' = PasswordsDoNotMatch
             /\ ~last'.passed
             /\ UNCHANGED <<inflight, isLoading, isSuccess>>)]_vars

C5_Witness ==
    /\ last.op = "submit"
    /\ newPassword # confirmPassword
    /\ Len(newPassword) >= MinPasswordLength /\ Len(confirmPassword) >= MinPasswordLength
    /\ error = PasswordsDoNotMatch
    /\ inflight = <<>>

\* C6 as stated: a submit with newPassword shorter than 8 characters starts no
\* call and shows the minimum-length message, for every confirmPassword.
C6_ShortShowsMinLength ==
    [][(last'.op = "submit" /\ Len(newPassword) < MinPasswordLength)
         => (error' = PasswordTooShort /\ UNCHANGED inflight)]_vars

\* C6 amended: a submit with newPassword shorter than 8 characters starts no
\* call, for every confirmPassword; it shows the minimum-length message when
\* confirmPassword equals newPassword and 'Passwords do not match' otherwise.
C6_ShortNeverCalls ==
    [][(last'.op = "submit" /\ Len(newPassword) < MinPasswordLength)
         => (/\ UNCHANGED inflight
             /\ ~last'.passed
             /\ error' = IF newPassword = confirmPassword
                         THEN PasswordTooShort ELSE PasswordsDoNotMatch)]_vars

C6_Witness ==
    /\ last.op = "submit"
    /\ Len(newPassword) = MinPasswordLength - 1
    /\ newPassword = confirmPassword
    /\ error = PasswordTooShort
    /\ inflight = <<>>

SuccessBody(v) ==
    v.t = "object" /\ "success" \in DOMAIN v.fields /\ v.fields["success"] = Bool(TRUE)

\* C7 as stated: when the request resolves with a 2xx response, the page shows
\* the success view, with the email that was sent.
C7_SuccessOn2xx ==
    (Got2xx /\ Resolved)
        => (isSuccess /\ ShownEmail = last.data.email)

\* C7 amended: when the request resolves with a body whose success field is
\* true, the page shows the success view, with the email that was sent.
C7_SuccessOnSuccessTrue ==
    (Resolved /\ SuccessBody(last.result.value))
        => (isSuccess /\ ShownEmail = last.data.email)

C7_Witness ==
    /\ Got2xx /\ Resolved /\ SuccessBody(last.result.value)
    /\ isSuccess
    /\ ShownEmail = last.data.email /\ ShownEmail # <<>>

Called == last.op = "call"

\* the headers the caller supplied, by name
Supplied(h) ==
    CASE h.t = "record" -> h.fields
      [] h.t = "Headers" -> h.entries
      [] h.t = "array" ->
            [n \in {h.items[j][1] : j \in 1..Len(h.items)} |->
                LET j == CHOOSE j \in 1..Len(h.items) : h.items[j][1] = n
                IN  h.items[j][2]]
      [] OTHER -> EmptyRecord

ExpectedDefaults(token) ==
    [k \in {"Content-Type", "Accept"}
            \cup (IF token.t = "string" /\ token.v # <<>> THEN {"Authorization"} ELSE {})
       |-> IF k = "Authorization" THEN <<"Bearer">> \o token.v ELSE ApplicationJson]

\* C8: the headers sent are the default headers overlaid with the caller's: a
\* name the caller supplied is sent with the caller's value, a default the
\* caller did not supply is sent unchanged, and nothing else is sent.
C8_CallerHeadersTakePrecedence ==
    Called =>
        LET sent == last.call.init.headers
            sup == Supplied(last.call.options.headers)
            def == ExpectedDefaults(last.call.token)
        IN  /\ DOMAIN sent = (DOMAIN def) \cup (DOMAIN sup)
            /\ \A k \in DOMAIN sup : sent[k] = sup[k]
            /\ \A k \in (DOMAIN def) \ (DOMAIN sup) : sent[k] = def[k]

\* C9 as stated: every 2xx response makes makeRequest resolve, with the parsed
\* body as it is.
C9_Every2xxResolves ==
    Got2xx => (Resolved /\ BodyParsed /\ last.result.value = ParsedBody)

\* C9 amended: every 2xx response whose body could be parsed makes makeRequest
\* resolve with the parsed body as it is: the JSON value when the content type
\* indicates JSON, else {message: text}; no field of the body makes it reject.
C9_Parsed2xxResolves ==
    (Got2xx /\ BodyParsed) => (Resolved /\ last.result.value = ParsedBody)

C9_Witness ==
    /\ Got2xx /\ BodyParsed /\ Resolved
    /\ IndicatesJson(last.outcome.response.contentType)
    /\ HasUsable(ParsedBody, "errorMessage")
    /\ "success" \in DOMAIN ParsedBody.fields
    /\ ParsedBody.fields["success"] = Bool(FALSE)
    /\ last.result.value = ParsedBody

\* C10: a submit that passes validation sets isLoading and clears the error as
\* it issues the request; when the request has settled isLoading is false
\* whatever the outcome; unless the outcome is success true, an error is shown
\* and isSuccess stays false; isSuccess, once true, stays true.
C10_LoadingLifecycle ==
    [][/\ (last'.op = "submit" /\ last'.passed)
            => (/\ isLoading' /\ error' = NoError
                /\ Len(inflight') = Len(inflight) + 1)
       /\ (last'.op = "settled") => ~isLoading'
       /\ (last'.op = "settled"
             /\ ~(last'.result.kind = "return" /\ SuccessBody(last'.result.value)))
            => (error' # NoError /\ ~isSuccess')
       /\ isSuccess => isSuccess']_vars

C10_Witness ==
    /\ Rejected
    /\ last.data # Undefined
    /\ ~isLoading /\ ~isSuccess
    /\ error = last.result.error.message /\ error # NoError

====
